---------------------------- MODULE Spec2Model ----------------------------
(* A state-machine model of the two command-line tools of rag-playground:  *)
(*   tools/list_files.py        list-files, create-symlinks                 *)
(*   tools/update_knowledge.py  get-dataset-id, add, search                 *)
(* Strings that the code formats, splits or rewrites (path names, the      *)
(* ledger file) are sequences of characters, so that those conversions are *)
(* computed and not assumed.                                               *)
EXTENDS Integers, Sequences, FiniteSets, TLC

VARIABLES
    cmd,         \* the command being run
    pc,          \* control point of the command
    out,         \* standard output, one line per element
    errs,        \* standard error, one diagnostic per element
    \* ---- list_files.py ----
    tree,        \* the file system below the root: a set of [path, kind]
    dirs,        \* list_files: the `dirs` argument; create_symlinks: <<src_dir>>
    dirIdx,      \* position of the `for directory in dirs` loop
    stack,       \* the active recursive_list_files generator frames
    yielded,     \* every file the generator has yielded, tagged by traversal
    linkDir,     \* link_dir: [exists, entries]; entries maps a name to its target
    \* ---- update_knowledge.py: the remote service ----
    datasets,    \* the remote's dataset listing, a sequence of [name, id]
    docs,        \* the remote's documents matching the keyword
    dsReqs,      \* the page numbers list_datasets was called with, in order
    docReqs,     \* the page numbers list_documents was called with, in order
    calls,       \* the create_document_by_file calls of this run: [path, status]
    \* ---- update_knowledge.py: the process ----
    page,        \* the local `page`
    dataset_id,  \* what fetch_dataset_id returned
    src,         \* add: the `src` argument
    srcIdx,      \* add: position of recursive_list_files' `for path in paths`
    rtodo,       \* add: what the current path's enumeration has yet to yield
    uploaded_files, \* add: the in-memory ledger set
    buf,         \* add: text written to db_file_handle and not yet on disk
    disk,        \* the ledger file: [exists, text]
    run,         \* which of two successive add runs this is
    start,       \* the ledger as this run found it: [exists, lines]
    prev         \* how the previous run ended and what it uploaded

lfVars == <<tree, dirs, dirIdx, stack, yielded, linkDir>>

remoteVars == <<datasets, docs, dsReqs, docReqs, calls>>

addVars == <<src, srcIdx, rtodo, uploaded_files, buf, disk, run, start, prev>>

ukVars == <<remoteVars, page, dataset_id, addVars>>

vars == <<cmd, pc, out, errs, lfVars, ukVars>>

----------------------------------------------------------------------------
(* Bounds of the model.                                                     *)

\* Largest number of entries (files and directories) below the root.
MaxNodes == 3

\* Largest length of the `dirs` argument of list-files.
MaxDirs == 2

\* Items per page. The code asks for pages of 100; the model scales the
\* page down so that listings of a few items span several pages.
page_size == 2

\* Longest dataset listing of the remote in the get-dataset-id runs.
MaxDatasets == 5

\* Most documents the remote holds for the search keyword.
MaxDocs == 5

\* Largest length of the `src` argument of add.
MaxSrc == 2

\* The request and output logs of search keep their first MaxLog entries.
MaxLog == 6

----------------------------------------------------------------------------
(* File names and directory trees.                                         *)

\* Entry names: "a", "b" and "a_b". None contains the separator "/".
Names == { <<"a">>, <<"b">>, <<"a", "_", "b">> }

Kinds == {"dir", "file"}

\* The root directory: the empty list of path segments.
Root == << >>

\* Path.is_dir()
is_dir(t, p) == p = Root \/ \E n \in t : n.path = p /\ n.kind = "dir"

\* Path.iterdir(): the entries directly inside directory d.
iterdir(t, d) ==
    { n.path : n \in { m \in t : /\ Len(m.path) = Len(d) + 1
                                 /\ SubSeq(m.path, 1, Len(d)) = d } }

\* All directories of a tree, the root included.
DirsOf(t) == {Root} \cup { n.path : n \in { m \in t : m.kind = "dir" } }

\* Every tree obtained from t by adding one entry inside one of its directories.
Grow(t) ==
    { t \cup { [path |-> Append(d, nm), kind |-> k] } :
        <<d, nm, k>> \in { x \in DirsOf(t) \X Names \X Kinds :
                             \A n \in t : n.path # Append(x[1], x[2]) } }

RECURSIVE TreesUpTo(_)
TreesUpTo(n) ==
    IF n = 0 THEN { {} }
    ELSE LET P == TreesUpTo(n - 1) IN P \cup UNION { Grow(t) : t \in P }

\* The regular files of t that lie below directory d.
FilesBelow(t, d) ==
    { n.path : n \in { m \in t : /\ m.kind = "file"
                                 /\ Len(m.path) > Len(d)
                                 /\ SubSeq(m.path, 1, Len(d)) = d } }

----------------------------------------------------------------------------
(* Name flattening.                                                        *)

\* PurePath.relative_to(directory)
relative_to(file, directory) == SubSeq(file, Len(directory) + 1, Len(file))

\* PurePath.as_posix(): the segments joined by "/".
RECURSIVE as_posix(_)
as_posix(rel) ==
    IF Len(rel) = 0 THEN <<".">>
    ELSE IF Len(rel) = 1 THEN rel[1]
    ELSE rel[1] \o <<"/">> \o as_posix(Tail(rel))

\* str.replace(old, new) for one-character old and new.
replace(s, old, new) ==
    [ i \in 1..Len(s) |-> IF s[i] = old THEN new ELSE s[i] ]

\* relative_path.as_posix().replace('/', '_')
unique_name(file, directory) ==
    replace(as_posix(relative_to(file, directory)), "/", "_")

----------------------------------------------------------------------------
(* Text: splitting, stripping, suffixes.                                   *)

Min(a, b) == IF a <= b THEN a ELSE b

\* The first n elements of s.
Keep(s, n) == SubSeq(s, 1, Min(Len(s), n))

Whitespace == {" ", "\n"}

\* Position of the first c in s, 0 when there is none.
IndexOf(s, c) ==
    IF \E i \in 1..Len(s) : s[i] = c
    THEN CHOOSE i \in 1..Len(s) : s[i] = c /\ \A j \in 1..(i - 1) : s[j] # c
    ELSE 0

\* Position of the last c in s, 0 when there is none.
LastIndexOf(s, c) ==
    IF \E i \in 1..Len(s) : s[i] = c
    THEN CHOOSE i \in 1..Len(s) : s[i] = c /\ \A j \in (i + 1)..Len(s) : s[j] # c
    ELSE 0

\* str.split(c): the pieces of s between occurrences of c.
RECURSIVE Split(_, _)
Split(s, c) ==
    LET i == IndexOf(s, c)
    IN  IF i = 0 THEN << s >>
        ELSE << SubSeq(s, 1, i - 1) >> \o Split(SubSeq(s, i + 1, Len(s)), c)

\* str.strip(): s without its leading and trailing whitespace.
RECURSIVE Strip(_)
Strip(s) ==
    IF s = << >> THEN s
    ELSE IF Head(s) \in Whitespace THEN Strip(Tail(s))
    ELSE IF s[Len(s)] \in Whitespace THEN Strip(SubSeq(s, 1, Len(s) - 1))
    ELSE s

\* PurePath.suffix: the last component from its last dot on, empty when the
\* dot is missing, leads the name or ends it.
suffix(p) ==
    LET name == SubSeq(p, LastIndexOf(p, "/") + 1, Len(p))
        i    == LastIndexOf(name, ".")
    IN  IF i <= 1 \/ i = Len(name) THEN << >> ELSE SubSeq(name, i, Len(name))

----------------------------------------------------------------------------
(* update_knowledge.py: the files add can be given.                        *)

\* Resolved absolute paths of the files on disk: /a.t, /c.x, and a file
\* b.m in a directory whose name is "a.t" followed by a line break.
PA == <<"/", "a", ".", "t">>

PX == <<"/", "c", ".", "x">>

PN == <<"/", "a", ".", "t", "\n", "/", "b", ".", "m">>

FsFiles == {PA, PX, PN}

\* The directory that holds them all, as a `src` argument.
DirArg == <<"/">>

\* The --extensions option; the code's default is 'txt,md,pdf'.
ExtOption == <<"t", ",", " ", "m">>

\* {f".{ext.strip()}" for ext in extensions.split(",")}
extensions_set ==
    LET parts == Split(ExtOption, ",")
    IN  { <<".">> \o Strip(parts[i]) : i \in DOMAIN parts }

\* recursive_list_files(paths, extensions) for one element of paths: what
\* p.rglob('*') yields below a directory, or the file itself, kept when its
\* suffix is accepted.
recursive_list_files(path) ==
    IF path = DirArg
    THEN { f \in FsFiles : suffix(f) \in extensions_set }
    ELSE IF path \in FsFiles /\ suffix(path) \in extensions_set
    THEN { path }
    ELSE {}

----------------------------------------------------------------------------
(* update_knowledge.py: the ledger file.                                   *)

\* load_uploaded_files(database_file)
load_uploaded_files(d) ==
    IF ~ d.exists THEN {}
    ELSE LET lines == Split(d.text, "\n")
         IN  { Strip(lines[i]) : i \in DOMAIN lines } \ { << >> }

\* A faulty open that does not create a missing file.
open_existing_only(d) == d

\* open(database_file, 'a'): a missing file is created, empty.
open_append(d) == [d EXCEPT !.exists = TRUE]

\* save_uploaded_files(db_file_handle, file_path): the text the write adds
\* to the handle's buffer.
save_uploaded_files(b, file_path) == b \o file_path \o <<"\n">>

\* The buffered text reaches the file: the buffer filled up, or the handle
\* was closed.
flush(d, b) == [d EXCEPT !.text = @ \o b]

----------------------------------------------------------------------------
(* update_knowledge.py: the remote service.                                *)

\* The --dataset-name option.
dataset_name == "p"

DatasetRecords == [name : {"p", "q"}, id : {"", "d1", "d2"}]

\* Python's None.
None == "None"

\* `if dataset_id:` -- None and the empty string are false.
truthy_always(x) == TRUE

truthy(x) == x \notin {None, ""}

\* Page p of a listing, for pages of n items.
PageOf(list, p, n) == SubSeq(list, (p - 1) * n + 1, Min(p * n, Len(list)))

\* The has_more field of the response to page p.
has_more(list, p, n) == p * n < Len(list)

\* All listings of at most n datasets.
Listings(n) == UNION { [1..k -> DatasetRecords] : k \in 0..n }

\* Listings for the add and search runs: up to page_size datasets of another
\* name, then nothing, or one dataset of the requested name.
ShortListings ==
    { [i \in 1..k |-> [name |-> "q", id |-> "d2"]] \o t :
        k \in 0..page_size,
        t \in { << >>, <<[name |-> "p", id |-> "d1"]>>,
                <<[name |-> "p", id |-> ""]>> } }

\* A faulty scan that keeps the last dataset of the page with the name.
last_match(data, name) ==
    IF \E i \in DOMAIN data : data[i].name = name
    THEN CHOOSE i \in DOMAIN data :
           data[i].name = name /\ \A j \in DOMAIN data : j > i => data[j].name # name
    ELSE 0

\* `for dataset in datasets: if dataset.get("name") == dataset_name`:
\* the position of the first dataset of the page with the name, 0 if none.
first_match(data, name) ==
    IF \E i \in DOMAIN data : data[i].name = name
    THEN CHOOSE i \in DOMAIN data :
           data[i].name = name /\ \A j \in 1..(i - 1) : data[j].name # name
    ELSE 0

----------------------------------------------------------------------------
(* list_files.py                                                           *)

\* A generator frame of recursive_list_files(directory): the directory and
\* the entries iterdir() has not produced yet (their order is up to the
\* file system).
Frame(t, d) == [dir |-> d, todo |-> iterdir(t, d)]

Top == stack[Len(stack)]

Pop == SubSeq(stack, 1, Len(stack) - 1)

ReplaceTop(f) == [stack EXCEPT ![Len(stack)] = f]

\* The state of the tool that is not running.
IdleKnowledge ==
    /\ datasets = << >>
    /\ docs = << >>
    /\ dsReqs = << >>
    /\ docReqs = << >>
    /\ calls = << >>
    /\ page = 0
    /\ dataset_id = "None"
    /\ src = << >>
    /\ srcIdx = 0
    /\ rtodo = {}
    /\ uploaded_files = {}
    /\ buf = << >>
    /\ disk = [exists |-> FALSE, text |-> << >>]
    /\ run = "first"
    /\ start = [exists |-> FALSE, text |-> << >>, lines |-> {}]
    /\ prev = [ended |-> "", failed |-> 0, uploads |-> {}, start |-> {}]

IdleFiles ==
    /\ tree = {}
    /\ dirs = << >>
    /\ dirIdx = 0
    /\ stack = << >>
    /\ yielded = << >>
    /\ linkDir = [exists |-> FALSE, entries |-> << >>]

InitFiles ==
    /\ tree \in TreesUpTo(MaxNodes)
    /\ cmd \in {"list_files", "create_symlinks"}
    /\ \/ /\ cmd = "list_files"
          /\ dirs \in UNION { [1..n -> DirsOf(tree)] : n \in 1..MaxDirs }
          /\ linkDir = [exists |-> FALSE, entries |-> << >>]
       \/ /\ cmd = "create_symlinks"
          /\ dirs \in [1..1 -> DirsOf(tree)]
          /\ \/ linkDir = [exists |-> FALSE, entries |-> << >>]
             \/ linkDir = [exists |-> TRUE, entries |-> << >>]
             \/ \E nm \in Names :
                  linkDir = [exists |-> TRUE,
                             entries |-> (nm :> [old |-> TRUE, file |-> Root])]
    /\ dirIdx = 0
    /\ stack = << >>
    /\ yielded = << >>
    /\ out = << >>
    /\ errs = << >>
    /\ pc = "start"
    /\ IdleKnowledge

\* Entry of either command: create_symlinks makes link_dir (mkdir with
\* parents=True, exist_ok=True); then the first traversal begins.
LFStart ==
    /\ pc = "start"
    /\ linkDir' = IF cmd = "create_symlinks"
                  THEN [linkDir EXCEPT !.exists = TRUE]
                  ELSE linkDir
    /\ dirIdx' = 1
    /\ stack' = << Frame(tree, dirs[1]) >>
    /\ pc' = "walk"
    /\ UNCHANGED <<tree, cmd, dirs, yielded, out, errs, ukVars>>

\* A faulty traversal that skips subdirectories instead of descending.
DescendSkipping ==
    /\ pc = "walk"
    /\ stack # << >>
    /\ \E e \in Top.todo :
         /\ is_dir(tree, e)
         /\ stack' = ReplaceTop([Top EXCEPT !.todo = @ \ {e}])
    /\ UNCHANGED <<tree, cmd, dirs, dirIdx, yielded, out, linkDir, errs, pc, ukVars>>

\* recursive_list_files: the next entry is a directory; recurse into it.
Descend ==
    /\ pc = "walk"
    /\ stack # << >>
    /\ \E e \in Top.todo :
         /\ is_dir(tree, e)
         /\ stack' = Append(ReplaceTop([Top EXCEPT !.todo = @ \ {e}]),
                            Frame(tree, e))
    /\ UNCHANGED <<tree, cmd, dirs, dirIdx, yielded, out, linkDir, errs, pc, ukVars>>

\* recursive_list_files yields a file and the body of list_files' loop
\* prints its flattened name.
YieldList ==
    /\ pc = "walk"
    /\ cmd = "list_files"
    /\ stack # << >>
    /\ \E e \in Top.todo :
         /\ ~ is_dir(tree, e)
         /\ stack' = ReplaceTop([Top EXCEPT !.todo = @ \ {e}])
         /\ yielded' = Append(yielded, [trav |-> dirIdx, file |-> e])
         /\ out' = Append(out, unique_name(e, dirs[dirIdx]))
    /\ UNCHANGED <<tree, cmd, dirs, dirIdx, linkDir, errs, pc, ukVars>>

\* A faulty symlink_to that replaces an existing entry.
symlink_overwrite(ld, name, file, fails) ==
    IF fails
    THEN [ld |-> ld, err |-> <<[kind |-> "error", name |-> name]>>]
    ELSE [ld |-> [ld EXCEPT !.entries =
                     [ k \in (DOMAIN @) \cup {name} |->
                         IF k = name THEN [old |-> FALSE, file |-> file]
                         ELSE @[k] ]],
          err |-> << >>]

\* symlink_path.symlink_to(file) inside the try block: FileExistsError when
\* the name is taken, some other OSError when `fails`, else the link is made.
symlink_to(ld, name, file, fails) ==
    IF name \in DOMAIN ld.entries
    THEN [ld |-> ld, err |-> <<[kind |-> "skipped", name |-> name]>>]
    ELSE IF fails
    THEN [ld |-> ld, err |-> <<[kind |-> "error", name |-> name]>>]
    ELSE [ld |-> [ld EXCEPT !.entries =
                     [ k \in (DOMAIN @) \cup {name} |->
                         IF k = name THEN [old |-> FALSE, file |-> file]
                         ELSE @[k] ]],
          err |-> << >>]

\* recursive_list_files yields a file and the body of create_symlinks' loop
\* tries to link it.
YieldSymlink ==
    /\ pc = "walk"
    /\ cmd = "create_symlinks"
    /\ stack # << >>
    /\ \E e \in Top.todo, fails \in BOOLEAN :
         LET r == symlink_to(linkDir, unique_name(e, dirs[dirIdx]), e, fails)
         IN /\ ~ is_dir(tree, e)
            /\ stack' = ReplaceTop([Top EXCEPT !.todo = @ \ {e}])
            /\ yielded' = Append(yielded, [trav |-> dirIdx, file |-> e])
            /\ linkDir' = r.ld
            /\ errs' = errs \o r.err
    /\ UNCHANGED <<tree, cmd, dirs, dirIdx, out, pc, ukVars>>

\* A generator frame is exhausted. The outermost frame ending ends the
\* traversal: list_files goes on to its next directory, if any.
GenReturn ==
    /\ pc = "walk"
    /\ stack # << >>
    /\ Top.todo = {}
    /\ IF Len(stack) > 1
       THEN /\ stack' = Pop
            /\ UNCHANGED <<dirIdx, pc>>
       ELSE IF dirIdx < Len(dirs)
       THEN /\ dirIdx' = dirIdx + 1
            /\ stack' = << Frame(tree, dirs[dirIdx + 1]) >>
            /\ UNCHANGED pc
       ELSE /\ stack' = << >>
            /\ dirIdx' = dirIdx + 1
            /\ pc' = "done"
    /\ UNCHANGED <<tree, cmd, dirs, yielded, out, linkDir, errs, ukVars>>

NextFiles ==
    \/ LFStart
    \/ Descend
    \/ YieldList
    \/ YieldSymlink
    \/ GenReturn

SpecFiles == InitFiles /\ [][NextFiles]_vars

----------------------------------------------------------------------------
(* update_knowledge.py                                                     *)

Statuses == {200, 500}

Terminal == {"finished", "not_found", "failed", "interrupted", "killed"}

\* The paths of this run's calls that were answered 200.
Uploads(cs) == { c.path : c \in { cs[i] : i \in DOMAIN cs } \cap [path : FsFiles, status : {200}] }

\* The number of this run's calls that were not answered 200.
Failures(cs) == Cardinality({ i \in DOMAIN cs : cs[i].status # 200 })

\* The ledger as a run finds it.
Found(d) == [exists |-> d.exists, text |-> d.text,
             lines |-> load_uploaded_files(d)]

RunStart ==
    /\ pc = "fetch"
    /\ page = 1
    /\ dataset_id = None
    /\ dsReqs = << >>
    /\ docReqs = << >>
    /\ calls = << >>
    /\ out = << >>
    /\ errs = << >>
    /\ srcIdx = 0
    /\ rtodo = {}
    /\ uploaded_files = {}
    /\ buf = << >>
    /\ run = "first"
    /\ prev = [ended |-> "", failed |-> 0, uploads |-> {}, start |-> {}]
    /\ IdleFiles

InitDataset ==
    /\ cmd = "get_dataset_id"
    /\ datasets \in Listings(MaxDatasets)
    /\ docs = << >>
    /\ src = << >>
    /\ disk = [exists |-> FALSE, text |-> << >>]
    /\ start = Found(disk)
    /\ RunStart

InitAdd ==
    /\ cmd = "add"
    /\ datasets \in ShortListings
    /\ docs = << >>
    /\ src \in UNION { [1..n -> {DirArg} \cup FsFiles] : n \in 1..MaxSrc }
    /\ disk \in { [exists |-> FALSE, text |-> << >>],
                  [exists |-> TRUE, text |-> << >>],
                  [exists |-> TRUE, text |-> PA \o <<"\n">>] }
    /\ start = Found(disk)
    /\ RunStart

InitSearch ==
    /\ cmd = "search"
    /\ datasets \in ShortListings
    /\ docs \in { [i \in 1..n |-> i] : n \in 0..MaxDocs }
    /\ src = << >>
    /\ disk = [exists |-> FALSE, text |-> << >>]
    /\ start = Found(disk)
    /\ RunStart

\* One pass of fetch_dataset_id's loop: the list_datasets request and what
\* the code does with the response. A status other than 200 raises, and the
\* command's `except Exception` prints the error and ends the command.
FetchPage ==
    /\ pc = "fetch"
    /\ \E status \in Statuses :
         LET data == PageOf(datasets, page, page_size)
             m    == first_match(data, dataset_name)
         IN  /\ dsReqs' = Append(dsReqs, page)
             /\ IF status # 200
                THEN /\ errs' = Append(errs, [kind |-> "error", status |-> status])
                     /\ pc' = "failed"
                     /\ UNCHANGED <<page, dataset_id>>
                ELSE IF m # 0
                THEN /\ dataset_id' = data[m].id
                     /\ pc' = "fetched"
                     /\ UNCHANGED <<page, errs>>
                ELSE IF Len(data) < page_size
                THEN /\ dataset_id' = None
                     /\ pc' = "fetched"
                     /\ UNCHANGED <<page, errs>>
                ELSE /\ page' = page + 1
                     /\ UNCHANGED <<pc, dataset_id, errs>>
    /\ UNCHANGED <<cmd, out, lfVars, datasets, docs, docReqs, calls, addVars>>

\* get_dataset_id after fetch_dataset_id has returned.
GetDatasetIdEnd ==
    /\ pc = "fetched"
    /\ cmd = "get_dataset_id"
    /\ IF truthy(dataset_id)
       THEN /\ out' = Append(out, dataset_id)
            /\ pc' = "finished"
            /\ UNCHANGED errs
       ELSE /\ errs' = Append(errs, [kind |-> "not_found", status |-> 0])
            /\ pc' = "not_found"
            /\ UNCHANGED out
    /\ UNCHANGED <<cmd, lfVars, ukVars>>

\* add and search: `if not dataset_id:` reports and returns.
NoDataset ==
    /\ pc = "fetched"
    /\ cmd \in {"add", "search"}
    /\ ~ truthy(dataset_id)
    /\ errs' = Append(errs, [kind |-> "not_found", status |-> 0])
    /\ pc' = "not_found"
    /\ UNCHANGED <<cmd, out, lfVars, ukVars>>

\* add, from `client.dataset_id = dataset_id` to the head of the loop: the
\* ledger is loaded, the file is opened for appending, and the enumeration of
\* the first source path begins.
AddOpenLedger ==
    /\ pc = "fetched"
    /\ cmd = "add"
    /\ truthy(dataset_id)
    /\ uploaded_files' = load_uploaded_files(disk)
    /\ disk' = open_append(disk)
    /\ buf' = << >>
    /\ srcIdx' = 1
    /\ rtodo' = recursive_list_files(src[1])
    /\ pc' = "loop"
    /\ UNCHANGED <<cmd, out, errs, lfVars, remoteVars, page, dataset_id,
                   src, run, start, prev>>

\* add: the candidate is in the in-memory ledger; report and continue.
AddSkip ==
    /\ pc = "loop"
    /\ \E f \in rtodo :
         /\ f \in uploaded_files
         /\ out' = Append(out, f)
         /\ rtodo' = rtodo \ {f}
    /\ UNCHANGED <<cmd, pc, errs, lfVars, remoteVars, page, dataset_id,
                   src, srcIdx, uploaded_files, buf, disk, run, start, prev>>

\* A faulty response handler that records the path whatever the status.
record_always(status, f, spill, up, b, d) ==
    [ uploaded_files |-> up \cup {f},
      buf  |-> IF spill THEN << >> ELSE save_uploaded_files(b, f),
      disk |-> IF spill THEN flush(d, save_uploaded_files(b, f)) ELSE d,
      err  |-> << >> ]

\* add: what follows create_document_by_file's response. On 200 the path is
\* written to the handle (the write may fill the buffer, which then goes to
\* the file) and added to the set; otherwise the failure is reported.
after_response(status, f, spill, up, b, d) ==
    IF status = 200
    THEN [ uploaded_files |-> up \cup {f},
           buf  |-> IF spill THEN << >> ELSE save_uploaded_files(b, f),
           disk |-> IF spill THEN flush(d, save_uploaded_files(b, f)) ELSE d,
           err  |-> << >> ]
    ELSE [ uploaded_files |-> up,
           buf  |-> b,
           disk |-> d,
           err  |-> << [kind |-> "upload_failed", status |-> status] >> ]

\* add: the candidate is not in the ledger; upload it.
AddUpload ==
    /\ pc = "loop"
    /\ \E f \in rtodo, status \in Statuses, spill \in BOOLEAN :
         LET r == after_response(status, f, spill, uploaded_files, buf, disk)
         IN  /\ f \notin uploaded_files
             /\ status # 200 => ~ spill
             /\ calls' = Append(calls, [path |-> f, status |-> status])
             /\ rtodo' = rtodo \ {f}
             /\ uploaded_files' = r.uploaded_files
             /\ buf' = r.buf
             /\ disk' = r.disk
             /\ errs' = errs \o r.err
    /\ UNCHANGED <<cmd, pc, out, lfVars, datasets, docs, dsReqs, docReqs,
                   page, dataset_id, src, srcIdx, run, start, prev>>

\* add: recursive_list_files moves on to the next source path.
AddNextPath ==
    /\ pc = "loop"
    /\ rtodo = {}
    /\ srcIdx < Len(src)
    /\ srcIdx' = srcIdx + 1
    /\ rtodo' = recursive_list_files(src[srcIdx + 1])
    /\ UNCHANGED <<cmd, pc, out, errs, lfVars, remoteVars, page, dataset_id,
                   src, uploaded_files, buf, disk, run, start, prev>>

\* add: the enumeration is over; leaving the `with` block closes the handle.
AddFinish ==
    /\ pc = "loop"
    /\ rtodo = {}
    /\ srcIdx = Len(src)
    /\ disk' = flush(disk, buf)
    /\ buf' = << >>
    /\ pc' = "finished"
    /\ UNCHANGED <<cmd, out, errs, lfVars, remoteVars, page, dataset_id,
                   src, srcIdx, rtodo, uploaded_files, run, start, prev>>

\* add is interrupted from the keyboard inside the loop: KeyboardInterrupt
\* unwinds through the `with` block, which closes the handle.
AddInterrupt ==
    /\ pc = "loop"
    /\ disk' = flush(disk, buf)
    /\ buf' = << >>
    /\ pc' = "interrupted"
    /\ UNCHANGED <<cmd, out, errs, lfVars, remoteVars, page, dataset_id,
                   src, srcIdx, rtodo, uploaded_files, run, start, prev>>

\* The add process is killed inside the loop (SIGKILL, SIGTERM, power
\* loss): nothing unwinds, and what the handle had buffered is lost.
AddKill ==
    /\ pc = "loop"
    /\ buf' = << >>
    /\ pc' = "killed"
    /\ UNCHANGED <<cmd, out, errs, lfVars, remoteVars, page, dataset_id,
                   src, srcIdx, rtodo, uploaded_files, disk, run, start, prev>>

\* add is run a second time with the same arguments and ledger file.
AddAgain ==
    /\ cmd = "add"
    /\ run = "first"
    /\ pc \in Terminal
    /\ run' = "second"
    /\ prev' = [ended |-> pc, failed |-> Failures(calls),
                uploads |-> Uploads(calls), start |-> start.lines]
    /\ start' = Found(disk)
    /\ pc' = "fetch"
    /\ page' = 1
    /\ dataset_id' = None
    /\ dsReqs' = << >>
    /\ calls' = << >>
    /\ out' = << >>
    /\ errs' = << >>
    /\ srcIdx' = 0
    /\ rtodo' = {}
    /\ uploaded_files' = {}
    /\ UNCHANGED <<cmd, lfVars, datasets, docs, docReqs, src, buf, disk>>

\* search, from `client.dataset_id = dataset_id` to the head of the loop.
SearchBegin ==
    /\ pc = "fetched"
    /\ cmd = "search"
    /\ truthy(dataset_id)
    /\ page' = 1
    /\ pc' = "search"
    /\ UNCHANGED <<cmd, out, errs, lfVars, remoteVars, dataset_id, addVars>>

\* search's loop sends its list_documents request. `page` is not assigned
\* anywhere in the loop.
SearchRequest ==
    /\ pc = "search"
    /\ docReqs' = Keep(Append(docReqs, page), MaxLog)
    /\ pc' = "awaiting"
    /\ UNCHANGED <<cmd, out, errs, lfVars, datasets, docs, dsReqs, calls, page,
                   dataset_id, addVars>>

\* search's loop receives the response: the page is printed and has_more
\* decides whether the loop goes round again; a status other than 200 is
\* reported and ends the command.
SearchResponse ==
    /\ pc = "awaiting"
    /\ \E status \in Statuses :
         IF status = 200
         THEN /\ out' = Keep(out \o PageOf(docs, page, page_size),
                             MaxLog * page_size)
              /\ pc' = IF has_more(docs, page, page_size)
                       THEN "search" ELSE "finished"
              /\ UNCHANGED errs
         ELSE /\ errs' = Append(errs, [kind |-> "error", status |-> status])
              /\ pc' = "failed"
              /\ UNCHANGED out
    /\ UNCHANGED <<cmd, lfVars, remoteVars, page, dataset_id, addVars>>

NextDataset ==
    \/ FetchPage
    \/ GetDatasetIdEnd

NextAdd ==
    \/ FetchPage
    \/ NoDataset
    \/ AddOpenLedger
    \/ AddSkip
    \/ AddUpload
    \/ AddNextPath
    \/ AddFinish
    \/ AddInterrupt
    \/ AddKill
    \/ AddAgain

NextSearch ==
    \/ FetchPage
    \/ NoDataset
    \/ SearchBegin
    \/ SearchRequest
    \/ SearchResponse

SpecDataset == InitDataset /\ [][NextDataset]_vars

SpecAdd == InitAdd /\ [][NextAdd]_vars

SpecSearch == InitSearch /\ [][NextSearch]_vars

\* A running process keeps taking steps.
FairSpecSearch == SpecSearch /\ WF_vars(NextSearch)

Init ==
    \/ InitFiles
    \/ InitDataset
    \/ InitAdd
    \/ InitSearch

Next ==
    \/ LFStart
    \/ Descend
    \/ YieldList
    \/ YieldSymlink
    \/ GenReturn
    \/ FetchPage
    \/ GetDatasetIdEnd
    \/ NoDataset
    \/ AddOpenLedger
    \/ AddSkip
    \/ AddUpload
    \/ AddNextPath
    \/ AddFinish
    \/ AddInterrupt
    \/ AddKill
    \/ AddAgain
    \/ SearchBegin
    \/ SearchRequest
    \/ SearchResponse

Spec == Init /\ [][Next]_vars

----------------------------------------------------------------------------
(* Properties of list_files.py                                             *)

\* The root-relative path with every separator written as an underscore,
\* built segment by segment.
RECURSIVE SepAsUnderscore(_)
SepAsUnderscore(rel) ==
    IF Len(rel) = 1 THEN rel[1]
    ELSE rel[1] \o <<"_">> \o SepAsUnderscore(Tail(rel))

\* The files traversal k has yielded so far, in order.
YieldsOf(k) == SelectSeq(yielded, LAMBDA y : y.trav = k)

NoRepeats(s) == \A i, j \in DOMAIN s : s[i] = s[j] => i = j

\* Traversal k has run to its end.
TraversalOver(k) == k < dirIdx

\* C8: a traversal yields only regular files below its root, none twice,
\* and once it has ended it has yielded all of them; every line list-files
\* prints is the root-relative path of the file yielded, with each separator
\* replaced by an underscore.
C8_TraversalExactlyOnce ==
    /\ \A k \in 1..Len(dirs) :
         /\ NoRepeats(YieldsOf(k))
         /\ { y.file : y \in { YieldsOf(k)[i] : i \in DOMAIN YieldsOf(k) } }
               \subseteq FilesBelow(tree, dirs[k])
         /\ TraversalOver(k) =>
              { y.file : y \in { YieldsOf(k)[i] : i \in DOMAIN YieldsOf(k) } }
                 = FilesBelow(tree, dirs[k])
    /\ cmd = "list_files" =>
         /\ Len(out) = Len(yielded)
         /\ \A i \in DOMAIN out :
              out[i] = SepAsUnderscore(
                          relative_to(yielded[i].file, dirs[yielded[i].trav]))

\* C8 witness: list-files has finished a tree holding a file in a
\* subdirectory of a subdirectory and printed its name.
C8_Witness ==
    /\ cmd = "list_files"
    /\ pc = "done"
    /\ \E i \in DOMAIN yielded :
         /\ Len(relative_to(yielded[i].file, dirs[yielded[i].trav])) >= 3
         /\ out[i] = <<"a", "_", "b", "_", "a">>

\* The names create_symlinks has put into link_dir itself.
NewLinks == { nm \in DOMAIN linkDir.entries : ~ linkDir.entries[nm].old }

\* C7: create-symlinks never replaces or removes an entry already in the
\* target directory; a file whose flattened name is taken is reported and
\* skipped; and the traversal still reaches every file.
C7_ExistingLinkKept ==
    /\ [][ cmd = "create_symlinks" =>
             \A nm \in DOMAIN linkDir.entries :
                /\ nm \in DOMAIN linkDir'.entries
                /\ linkDir'.entries[nm] = linkDir.entries[nm] ]_vars
    /\ [][ (cmd = "create_symlinks" /\ Len(yielded') = Len(yielded) + 1) =>
             LET y  == yielded'[Len(yielded')]
                 nm == SepAsUnderscore(relative_to(y.file, dirs[y.trav]))
             IN  nm \in DOMAIN linkDir.entries =>
                   /\ linkDir' = linkDir
                   /\ errs' = Append(errs, [kind |-> "skipped", name |-> nm])
                   /\ pc' = "walk" ]_vars
    /\ [](cmd = "create_symlinks" =>
            /\ Len(yielded) = Len(errs) + Cardinality(NewLinks)
            /\ pc = "done" =>
                 { yielded[i].file : i \in DOMAIN yielded }
                    = FilesBelow(tree, dirs[1]))

\* C7 witness: create-symlinks has finished a tree in which a/b and a_b
\* collide; the second one met was skipped and the first one's link stands.
C7_Witness ==
    /\ cmd = "create_symlinks"
    /\ pc = "done"
    /\ \E i, j \in DOMAIN yielded :
         /\ i < j
         /\ unique_name(yielded[i].file, dirs[1])
              = unique_name(yielded[j].file, dirs[1])
         /\ Len(yielded[i].file) # Len(yielded[j].file)
         /\ linkDir.entries[unique_name(yielded[i].file, dirs[1])]
              = [old |-> FALSE, file |-> yielded[i].file]
    /\ \E k \in DOMAIN errs : errs[k].kind = "skipped"

----------------------------------------------------------------------------
(* Properties of update_knowledge.py                                       *)

\* Position in the whole listing of the first dataset with the name.
FirstNamed(list, name) ==
    CHOOSE i \in DOMAIN list :
      list[i].name = name /\ \A j \in 1..(i - 1) : list[j].name # name

\* The page that holds position i.
PageHolding(i) == ((i - 1) \div page_size) + 1

\* C4: when some dataset has the requested name, the pages requested are
\* 1, 2, ... and never go past the page holding the first such dataset, and
\* what fetch_dataset_id returns is that dataset's id.
C4_FirstMatchStopsScan ==
    (\E i \in DOMAIN datasets : datasets[i].name = dataset_name) =>
      LET i == FirstNamed(datasets, dataset_name)
      IN  /\ Len(dsReqs) <= PageHolding(i)
          /\ \A k \in DOMAIN dsReqs : dsReqs[k] = k
          /\ pc \in {"fetched", "finished", "not_found"} =>
               /\ dataset_id = datasets[i].id
               /\ Len(dsReqs) = PageHolding(i)

\* C4 witness: the name is on page 1 of three pages, and again later with
\* another id; the scan has returned after one request.
C4_Witness ==
    /\ cmd = "get_dataset_id"
    /\ pc = "finished"
    /\ Len(datasets) > 2 * page_size
    /\ datasets[2].name = dataset_name
    /\ datasets[1].name # dataset_name
    /\ \E j \in DOMAIN datasets :
         j > 2 /\ datasets[j].name = dataset_name /\ datasets[j].id # datasets[2].id
    /\ dsReqs = <<1>>
    /\ out = << datasets[2].id >>

\* C5: add calls create_document_by_file only after a list_datasets response
\* that held a dataset of the requested name, whose id it then uses; a run
\* that found no such dataset, or whose listing failed, makes no call.
C5_ResolveBeforeUpload ==
    cmd = "add" =>
      /\ calls # << >> =>
           /\ dsReqs # << >>
           /\ \E i \in DOMAIN datasets :
                /\ datasets[i].name = dataset_name
                /\ datasets[i].id = dataset_id
                /\ PageHolding(i) = dsReqs[Len(dsReqs)]
      /\ pc \in {"fetch", "fetched", "not_found", "failed"} => calls = << >>

\* C5 witness: an upload has been made after the name was found on page 2.
C5_Witness ==
    /\ cmd = "add"
    /\ calls # << >>
    /\ dsReqs = <<1, 2>>

\* The number of candidates the enumeration of `src` yields in all.
RECURSIVE CandidateCount(_)
CandidateCount(paths) ==
    IF paths = << >> THEN 0
    ELSE Cardinality(recursive_list_files(Head(paths))) + CandidateCount(Tail(paths))

\* C6: a response other than 200 leaves the in-memory set, the handle and the
\* file as they were and leaves add in its loop; a run that reaches the end of
\* the loop has skipped or submitted every candidate.
C6_FailureDoesNotAbort ==
    /\ [][ (cmd = "add" /\ Len(calls') = Len(calls) + 1
                        /\ calls'[Len(calls')].status # 200) =>
             /\ uploaded_files' = uploaded_files
             /\ buf' = buf
             /\ disk' = disk
             /\ pc' = "loop"
             /\ rtodo' = rtodo \ { calls'[Len(calls')].path }
             /\ Len(errs') = Len(errs) + 1 ]_vars
    /\ [](cmd = "add" /\ pc = "finished" =>
            Len(calls) + Len(out) = CandidateCount(src))

\* C6 witness: a finished run in which an upload failed and a later candidate
\* was submitted and accepted.
C6_Witness ==
    /\ cmd = "add"
    /\ pc = "finished"
    /\ \E i, j \in DOMAIN calls :
         i < j /\ calls[i].status # 200 /\ calls[j].status = 200
    /\ calls[1].path \notin uploaded_files

\* The run has got past opening the ledger file.
Opened == pc \in {"loop", "finished", "interrupted", "killed"}

\* C9 as stated: a ledger file absent at the start of a run stays absent
\* as long as no upload of the run has succeeded.
C9_AbsentUntilFirstUpload ==
    (cmd = "add" /\ ~ start.exists /\ Uploads(calls) = {}) => ~ disk.exists

\* C9 amended: a ledger file absent at the start of a run exists exactly
\* from the moment the run, its dataset resolved, opens the ledger; it stays
\* empty as long as no upload of the run has succeeded.
C9_CreatedOnOpen ==
    (cmd = "add" /\ ~ start.exists) =>
      /\ disk.exists <=> Opened
      /\ Opened => truthy(dataset_id)
      /\ Uploads(calls) = {} => disk.text = << >>

\* C9 witness: a run that found no ledger file and no candidate has finished,
\* and has left an empty ledger file.
C9_Witness ==
    /\ cmd = "add"
    /\ ~ start.exists
    /\ pc = "finished"
    /\ calls = << >>
    /\ disk = [exists |-> TRUE, text |-> << >>]

\* The ledger text that the given calls, in order, should have produced.
RECURSIVE Recorded(_)
Recorded(cs) ==
    IF cs = << >> THEN << >>
    ELSE IF Head(cs).status = 200
    THEN Head(cs).path \o <<"\n">> \o Recorded(Tail(cs))
    ELSE Recorded(Tail(cs))

\* C2 as stated: whenever add has been stopped inside its loop, the ledger
\* file holds what it held at the start followed by exactly the paths
\* uploaded so far.
C2_LedgerDurable ==
    (cmd = "add" /\ pc \in {"interrupted", "killed"}) =>
      disk.text = start.text \o Recorded(calls)

\* C1 as stated, for a first run that reached its end with every upload
\* accepted: the second run makes no create_document_by_file call, and when
\* it reaches its end it has reported every candidate as already uploaded.
C1_SecondRunUploadsNothing ==
    (cmd = "add" /\ run = "second" /\ prev.ended = "finished" /\ prev.failed = 0) =>
      /\ calls = << >>
      /\ pc = "finished" => Len(out) = CandidateCount(src)

\* C3 as stated: list_documents is asked for pages 1, 2, 3, ... in turn, and
\* a search that ends normally has printed every document exactly as listed.
C3_SuccessivePages ==
    cmd = "search" =>
      /\ \A i \in DOMAIN docReqs : docReqs[i] = i
      /\ pc = "finished" /\ docReqs # << >> => out = docs

\* C10 as stated: every run of search ends, whatever the finite listings.
C10_ScansTerminate == <>(pc \in Terminal)

\* The dataset scan on its own does end.
DatasetScanEnds == <>(pc # "fetch")

============================================================================
